---- MODULE Spec2Model ----
(***************************************************************************)
(* Model of the real-time crypto scalper (src/real_time_crypto_scalper.py) *)
(* and of the one-shot signal script (src/main.py).                        *)
(*                                                                         *)
(* Prices are integers counting units of 0.0001 (the 4-decimal grid of     *)
(* round_price).  Times are integers counting seconds.  RSI and MA are     *)
(* kept as exact fractions (num/den), so every comparison of the code is   *)
(* decided by integer arithmetic.                                          *)
(***************************************************************************)
EXTENDS Integers, Sequences, FiniteSets, TLC

(***************************************************************************)
(* Configuration of the program.  RSI_PERIOD, MA_PERIOD and MAX_BARS are   *)
(* 14, 20 and 500 in the source; they are scaled down here so that the     *)
(* history can be enumerated.  The thresholds and the cooldown keep their  *)
(* source values.                                                          *)
(***************************************************************************)
RSI_PERIOD == 2
MA_PERIOD == 2
MAX_BARS == 3
cooldown_seconds == 30
BUY_THRESHOLD == 30
SELL_THRESHOLD == 70

(* Bounds of the exploration. *)
MaxDeliveries == 5
MaxSlots == 2
StartTime == 60
ClockStep == 15
MaxTime == 90
SignalDeliveries == 3
MaxRoundInput == 120

(* Symbols are token sequences, so that symbol.replace("/", "") is computed. *)
SYMBOL == <<"BTC", "/", "USD">>
OtherSymbol == <<"ETH", "/", "USD">>
Symbols == {SYMBOL, OtherSymbol}
PositionSymbols == {<<"BTC", "USD">>, <<"BTC", "/", "USD">>, <<"ETH", "USD">>}

(* Closes a feed can carry, in units of 0.0001. *)
Prices == {1, 2, 8, 9}
BarFields == {"close", "c"}
Bars ==
  UNION {[symbol : Symbols, fields : [S -> Prices]] : S \in SUBSET BarFields}

Slots == 1..MaxSlots

VARIABLES
  bars_df,          \* the close column of the bar buffer, oldest first
  last_order_time,  \* symbol -> time of the last successful order
  now,              \* what time.time() returns
  frame,            \* slot -> the on_bars call running in it
  delivered,        \* history: every close on_bars received, in order
  submissions,      \* history: every call of trading_client.submit_order
  main,             \* the run of the one-shot script main.py
  stream,           \* the stream thread: "running", or how it ended
  process,          \* the process: "running" or "exited"
  calc              \* a call of the price helpers on its own

vars == <<bars_df, last_order_time, now, frame, delivered, submissions, main,
          stream, process, calc>>

----------------------------------------------------------------------------
(* Helpers *)

RECURSIVE Pow(_, _)
Pow(b, k) == IF k = 0 THEN 1 ELSE b * Pow(b, k - 1)

RECURSIVE SumSeq(_)
SumSeq(s) == IF s = <<>> THEN 0 ELSE Head(s) + SumSeq(Tail(s))

Max(a, b) == IF a >= b THEN a ELSE b

(* A buffer that keeps its first n rows instead of its last n. *)
HeadN(s, n) == IF Len(s) <= n THEN s ELSE SubSeq(s, 1, n)

(* DataFrame.tail(n) *)
TailN(s, n) == IF Len(s) <= n THEN s ELSE SubSeq(s, Len(s) - n + 1, Len(s))

(* A value that may be None, kept as a fraction num/den when defined. *)
None == [def |-> FALSE, num |-> 0, den |-> 1]
Frac(n, d) == [def |-> TRUE, num |-> n, den |-> d]

(* close.diff(1) split into gains and losses; the first diff is NaN and     *)
(* both where() calls turn it into 0.                                       *)
UpDirection(s, i) == IF i = 1 THEN 0 ELSE Max(s[i] - s[i - 1], 0)
DownDirection(s, i) == IF i = 1 THEN 0 ELSE Max(s[i - 1] - s[i], 0)

(* ewm(alpha = 1/p, adjust = False).mean() at index t, times p^(t-1). *)
RECURSIVE EmaUp(_, _, _)
EmaUp(s, p, t) ==
  IF t = 1 THEN UpDirection(s, 1)
  ELSE (p - 1) * EmaUp(s, p, t - 1) + Pow(p, t - 2) * UpDirection(s, t)

RECURSIVE EmaDown(_, _, _)
EmaDown(s, p, t) ==
  IF t = 1 THEN DownDirection(s, 1)
  ELSE (p - 1) * EmaDown(s, p, t - 1) + Pow(p, t - 2) * DownDirection(s, t)

(* The length test off by one: an RSI from period closes. *)
compute_rsi_short_window(series, period) ==
  IF Len(series) < period THEN None
  ELSE LET up == EmaUp(series, period, Len(series))
           dn == EmaDown(series, period, Len(series))
       IN IF dn = 0 THEN Frac(100, 1) ELSE Frac(100 * up, up + dn)

compute_rsi_from_series(series, period) ==
  IF Len(series) < period + 1 THEN None
  ELSE LET up == EmaUp(series, period, Len(series))
           dn == EmaDown(series, period, Len(series))
       IN IF dn = 0 THEN Frac(100, 1) ELSE Frac(100 * up, up + dn)

compute_ma_from_series(series, period) ==
  IF Len(series) < period THEN None
  ELSE Frac(SumSeq(TailN(series, period)), period)

(* Comparisons of a defined fraction with an integer. *)
FracLt(f, k) == f.num < k * f.den
FracGt(f, k) == f.num > k * f.den

----------------------------------------------------------------------------
(* State of one on_bars call.  pc is the position in the call:             *)
(*   "idle"   no call in this slot                                        *)
(*   "eval"   the bar is appended, check_and_maybe_trade not yet entered   *)
(*   "query"  a Buy/Sell branch is taken, has_open_position not yet called *)
(*   "submit" no open position, place_bracket_order not yet called         *)
(*   "update" place_bracket_order returned, resp not yet tested            *)
(*   "ret"    check_and_maybe_trade returned                               *)

NoReply == [err |-> FALSE, positions |-> {}]

IdleFrame ==
  [pc |-> "idle", bar_symbol |-> SYMBOL, close |-> 0, symbol |-> SYMBOL,
   rsi |-> None, ma |-> None, last_price |-> 0, now_ts |-> 0, lot0 |-> 0,
   outcome |-> "none", side |-> "hold", queries |-> 0, reply |-> NoReply,
   has_pos |-> FALSE, calls |-> 0, resp |-> "none"]

(* float(getattr(bar, "close", float(getattr(bar, "c", 0.0)))) *)
BarClose(bar) ==
  IF "close" \in DOMAIN bar.fields THEN bar.fields["close"]
  ELSE IF "c" \in DOMAIN bar.fields THEN bar.fields["c"]
  ELSE 0

(* symbol.replace("/", "") *)
StripSlash(symbol) == SelectSeq(symbol, LAMBDA tok : tok # "/")

(* What trading_client.get_all_positions() can answer. *)
RegistryReplies ==
  {[err |-> TRUE, positions |-> {}]}
    \cup {[err |-> FALSE, positions |-> P] : P \in SUBSET PositionSymbols}

(* The comparison with the slash-free symbol left out. *)
has_open_position_exact(symbol, reply) ==
  IF reply.err THEN FALSE
  ELSE \E p \in reply.positions : p = symbol

(* has_open_position: a match returns True; an exception is caught and     *)
(* falls through to the final return False.                                *)
has_open_position(symbol, reply) ==
  IF reply.err THEN FALSE
  ELSE \E p \in reply.positions : p = StripSlash(symbol) \/ p = symbol

(* A cooldown test that never throttles. *)
NeverThrottled(now_ts, last) == FALSE

(* The cooldown test of check_and_maybe_trade. *)
Throttled(now_ts, last) == now_ts - last < cooldown_seconds

Abs(n) == IF n >= 0 THEN n ELSE -n

(* Rounding to the nearest fourth decimal, halves away from zero. *)
round_price_nearest(num, den) ==
  IF num >= 0 THEN (2 * num + den) \div (2 * den)
  ELSE -((2 * (-num) + den) \div (2 * den))

(* round_price(price, 4) of the price num/den (in units of 0.0001):        *)
(* quantize with ROUND_DOWN drops the digits after the fourth decimal,     *)
(* whatever the sign.                                                      *)
round_price(num, den) ==
  IF num >= 0 THEN num \div den ELSE -((-num) \div den)

(* entry_price * (1 - 0.01) and the like are float products.  With the    *)
(* factor k/100 the exact product of a grid price is n/100 grid units,     *)
(* n = entry_price * k.  The float is within an ulp of it, so it truncates *)
(* like the exact product unless that is a grid multiple, where the float  *)
(* can also lie just inside it (0.03 * 0.99 = 0.029699999999999997).  Both *)
(* outcomes are kept, the second as the numerator one step nearer zero.    *)
FloatProducts(entry_price, k) ==
  LET n == entry_price * k
  IN IF n # 0 /\ n % 100 = 0
     THEN {n, IF n > 0 THEN n - 1 ELSE n + 1}
     ELSE {n}

(* Stop and target of place_bracket_order: 1% and 2% of the entry price. *)
StopPrices(side, entry_price) ==
  {round_price(n, 100) :
     n \in FloatProducts(entry_price, IF side = "buy" THEN 99 ELSE 101)}

TakeProfitPrices(side, entry_price) ==
  {round_price(n, 100) :
     n \in FloatProducts(entry_price, IF side = "buy" THEN 102 ELSE 98)}

(* Where an exception is caught, by the place that raises it: the try     *)
(* blocks of place_bracket_order, has_open_position, on_bars and           *)
(* stream_thread.                                                          *)
NoHandlerBelowStreamThread(origin) == "stream_thread"

ExceptionHandler(origin) ==
  CASE origin = "submit_order" -> "place_bracket_order"
    [] origin = "get_all_positions" -> "has_open_position"
    [] origin = "check_and_maybe_trade" -> "on_bars"
    [] OTHER -> "stream_thread"

(* closes.iloc[-2] *)
PreviousClose(series) == series[Max(Len(series) - 1, 1)]

(* closes.iloc[-1] *)
LastClose(series) == series[Len(series)]

(* The if / elif of check_and_maybe_trade with the trend test of the Buy  *)
(* branch left out.                                                        *)
SignalWithoutTrend(rsi, ma, last_price) ==
  IF ~rsi.def \/ ~ma.def THEN "hold"
  ELSE IF FracLt(rsi, BUY_THRESHOLD) THEN "buy"
  ELSE IF FracGt(rsi, SELL_THRESHOLD) /\ last_price * ma.den < ma.num THEN "sell"
  ELSE "hold"

(* The rsi/ma tests of check_and_maybe_trade: None is a return (no signal), *)
(* then the if / elif decides the side.                                     *)
Signal(rsi, ma, last_price) ==
  IF ~rsi.def \/ ~ma.def THEN "hold"
  ELSE IF FracLt(rsi, BUY_THRESHOLD) /\ last_price * ma.den > ma.num THEN "buy"
  ELSE IF FracGt(rsi, SELL_THRESHOLD) /\ last_price * ma.den < ma.num THEN "sell"
  ELSE "hold"

(* A dispatcher that starts a call per bar without waiting for the last. *)
CanDeliverConcurrently == \E t \in Slots : frame[t].pc = "idle"

(* The stream's event loop hands a bar to on_bars only after the previous  *)
(* call returned: the callback is synchronous and the loop runs in one     *)
(* thread.                                                                 *)
CanDeliver == \A t \in Slots : frame[t].pc = "idle"

FreeSlot == CHOOSE t \in Slots : frame[t].pc = "idle" /\ \A u \in Slots : frame[u].pc = "idle" => t <= u

----------------------------------------------------------------------------
(* main.py: the latest hourly row (RSI, SMA50, SMA200, each NaN while its  *)
(* window is not filled) decides one market order.                         *)

MainRsiValues == {29, 30, 70, 71}
MainSmaValues == {1, 2}
MainRsi == {None} \cup {Frac(v, 1) : v \in MainRsiValues}
MainSma == {None} \cup {Frac(v, 1) : v \in MainSmaValues}

(* < and > of two floats: False when either is NaN. *)
FloatLt(a, b) == a.def /\ b.def /\ a.num * b.den < b.num * a.den
FloatGt(a, b) == FloatLt(b, a)

(* The if / elif / else of main.py. *)
MainSignal(rsi, sma50, sma200) ==
  IF FloatLt(rsi, Frac(BUY_THRESHOLD, 1)) /\ FloatGt(sma50, sma200) THEN "buy"
  ELSE IF FloatGt(rsi, Frac(SELL_THRESHOLD, 1)) /\ FloatLt(sma50, sma200) THEN "sell"
  ELSE "hold"

MainStart == [pc |-> "start", rsi |-> None, sma50 |-> None, sma200 |-> None, order |-> "none"]

(* No call of the price helpers under way. *)
CalcIdle == [pc |-> "idle", price |-> 0, result |-> 0,
             side |-> "none", entry_price |-> 0, sl |-> 0, tp |-> 0]

----------------------------------------------------------------------------
Init ==
  /\ bars_df = <<>>
  /\ last_order_time = [s \in Symbols |-> 0]
  /\ now = StartTime
  /\ frame = [t \in Slots |-> IdleFrame]
  /\ delivered = <<>>
  /\ submissions = <<>>
  /\ main = MainStart
  /\ stream = "running"
  /\ process = "running"
  /\ calc = CalcIdle

(* The stream thread is alive: stream.run() has not ended and the process  *)
(* has not exited (the thread is a daemon).                                *)
StreamThreadAlive == stream = "running" /\ process = "running"

(* time.time() moves on. *)
Tick ==
  /\ process = "running"
  /\ now + ClockStep <= MaxTime
  /\ now' = now + ClockStep
  /\ UNCHANGED <<main, stream, process, calc, bars_df, last_order_time, frame, delivered, submissions>>

(* on_bars up to the call of check_and_maybe_trade: the close is read and  *)
(* appended, the buffer is cut to its last MAX_BARS rows.                  *)
OnBarsAppend(bar) ==
  /\ StreamThreadAlive
  /\ Len(delivered) < MaxDeliveries
  /\ CanDeliver
  /\ \E t \in Slots : frame[t].pc = "idle"
  /\ LET close == BarClose(bar)
     IN /\ bars_df' = TailN(Append(bars_df, close), MAX_BARS)
        /\ delivered' = Append(delivered, close)
        /\ frame' = [frame EXCEPT ![FreeSlot] =
                       [IdleFrame EXCEPT !.pc = "eval",
                                         !.bar_symbol = bar.symbol,
                                         !.close = close,
                                         !.symbol = SYMBOL,
                                         !.lot0 = last_order_time[SYMBOL]]]
  /\ UNCHANGED <<main, stream, process, calc, last_order_time, now, submissions>>

(* check_and_maybe_trade up to the choice of a branch: indicators, the     *)
(* not-enough-data return, the cooldown return, the if / elif.             *)
Evaluate(t) ==
  /\ StreamThreadAlive
  /\ frame[t].pc = "eval"
  /\ LET f == frame[t]
         rsi == compute_rsi_from_series(bars_df, RSI_PERIOD)
         ma == compute_ma_from_series(bars_df, MA_PERIOD)
         last_price == LastClose(bars_df)
         side == Signal(rsi, ma, last_price)
         g == [f EXCEPT !.rsi = rsi, !.ma = ma, !.last_price = last_price]
     IN IF bars_df = <<>>
        THEN frame' = [frame EXCEPT ![t] = [f EXCEPT !.pc = "ret", !.outcome = "empty"]]
        ELSE IF ~rsi.def \/ ~ma.def
        THEN frame' = [frame EXCEPT ![t] = [g EXCEPT !.pc = "ret", !.outcome = "nodata"]]
        ELSE IF Throttled(now, last_order_time[f.symbol])
        THEN frame' = [frame EXCEPT ![t] =
                         [g EXCEPT !.pc = "ret", !.now_ts = now, !.outcome = "throttled"]]
        ELSE IF side = "hold"
        THEN frame' = [frame EXCEPT ![t] =
                         [g EXCEPT !.pc = "ret", !.now_ts = now, !.outcome = "hold"]]
        ELSE frame' = [frame EXCEPT ![t] =
                         [g EXCEPT !.pc = "query", !.now_ts = now, !.side = side,
                                   !.outcome = "signal"]]
  /\ UNCHANGED <<main, stream, process, calc, bars_df, last_order_time, now, delivered, submissions>>

(* An exception leaves check_and_maybe_trade: the try block of on_bars     *)
(* prints it and on_bars returns; with no handler there it ends            *)
(* stream.run(), and the try block of stream_thread ends the thread.       *)
Propagate(t, f, handler) ==
  IF handler = "on_bars"
  THEN /\ frame' = [frame EXCEPT ![t] = [f EXCEPT !.pc = "ret", !.outcome = "error"]]
       /\ stream' = stream
  ELSE /\ frame' = [frame EXCEPT ![t] = IdleFrame]
       /\ stream' = "callback_failed"

(* has_open_position asked twice in one evaluation. *)
QueryPositionTwice(t, reply) ==
  /\ StreamThreadAlive
  /\ frame[t].pc = "query"
  /\ LET f == frame[t]
         has_pos == has_open_position(f.symbol, reply)
     IN frame' = [frame EXCEPT ![t] =
                    [f EXCEPT !.pc = IF has_pos THEN "ret" ELSE "submit",
                              !.queries = f.queries + 2,
                              !.reply = reply,
                              !.has_pos = has_pos,
                              !.outcome = IF has_pos THEN "position" ELSE f.outcome]]
  /\ UNCHANGED <<main, stream, process, calc, bars_df, last_order_time, now, delivered, submissions>>

(* has_open_position(symbol) and the branch on its result. *)
QueryPosition(t, reply) ==
  /\ StreamThreadAlive
  /\ frame[t].pc = "query"
  /\ LET f == frame[t]
         has_pos == has_open_position(f.symbol, reply)
         g == [f EXCEPT !.queries = f.queries + 1, !.reply = reply]
     IN IF reply.err /\ ExceptionHandler("get_all_positions") # "has_open_position"
        THEN Propagate(t, g, ExceptionHandler("get_all_positions"))
        ELSE /\ frame' = [frame EXCEPT ![t] =
                    [g EXCEPT !.pc = IF has_pos THEN "ret" ELSE "submit",
                              !.has_pos = has_pos,
                              !.outcome = IF has_pos THEN "position" ELSE f.outcome]]
             /\ stream' = stream
  /\ UNCHANGED <<main, process, calc, bars_df, last_order_time, now, delivered, submissions>>

(* place_bracket_order stamping the gate as soon as the order is sent. *)
PlaceBracketOrderStamping(t, ok) ==
  /\ StreamThreadAlive
  /\ frame[t].pc = "submit"
  /\ LET f == frame[t]
     IN /\ \E sl \in StopPrices(f.side, f.last_price) :
           \E tp \in TakeProfitPrices(f.side, f.last_price) :
             submissions' = Append(submissions,
               [symbol |-> f.symbol, side |-> f.side, entry |-> f.last_price,
                sl |-> sl, tp |-> tp, ts |-> f.now_ts, ok |-> ok])
        /\ last_order_time' = [last_order_time EXCEPT ![f.symbol] = f.now_ts]
        /\ frame' = [frame EXCEPT ![t] =
                       [f EXCEPT !.pc = "update", !.calls = f.calls + 1,
                                 !.resp = IF ok THEN "order" ELSE "None",
                                 !.outcome = IF ok THEN "submitted" ELSE "failed"]]
  /\ UNCHANGED <<main, stream, process, calc, bars_df, now, delivered>>

(* place_bracket_order: the gateway accepts (ok) or raises; the exception  *)
(* is caught by the try block around submit_order and None is returned.    *)
PlaceBracketOrder(t, ok) ==
  /\ StreamThreadAlive
  /\ frame[t].pc = "submit"
  /\ LET f == frame[t]
         g == [f EXCEPT !.calls = f.calls + 1]
     IN /\ \E sl \in StopPrices(f.side, f.last_price) :
           \E tp \in TakeProfitPrices(f.side, f.last_price) :
             submissions' = Append(submissions,
               [symbol |-> f.symbol, side |-> f.side, entry |-> f.last_price,
                sl |-> sl, tp |-> tp, ts |-> f.now_ts, ok |-> ok])
        /\ IF ~ok /\ ExceptionHandler("submit_order") # "place_bracket_order"
           THEN Propagate(t, g, ExceptionHandler("submit_order"))
           ELSE /\ frame' = [frame EXCEPT ![t] =
                       [g EXCEPT !.pc = "update",
                                 !.resp = IF ok THEN "order" ELSE "None",
                                 !.outcome = IF ok THEN "submitted" ELSE "failed"]]
                /\ stream' = stream
  /\ UNCHANGED <<main, process, calc, bars_df, last_order_time, now, delivered>>

(* The return of place_bracket_order dropped: the gate is left alone. *)
GateUpdateSkipped(t) ==
  /\ StreamThreadAlive
  /\ frame[t].pc = "update"
  /\ frame' = [frame EXCEPT ![t] = [frame[t] EXCEPT !.pc = "ret"]]
  /\ UNCHANGED <<main, stream, process, calc, bars_df, last_order_time, now, delivered, submissions>>

(* The gate written without the test of resp. *)
GateUpdateAlways(t) ==
  /\ StreamThreadAlive
  /\ frame[t].pc = "update"
  /\ last_order_time' = [last_order_time EXCEPT ![frame[t].symbol] = frame[t].now_ts]
  /\ frame' = [frame EXCEPT ![t] = [frame[t] EXCEPT !.pc = "ret"]]
  /\ UNCHANGED <<main, stream, process, calc, bars_df, now, delivered, submissions>>

(* if resp is not None: last_order_time[symbol] = now_ts *)
GateUpdate(t) ==
  /\ StreamThreadAlive
  /\ frame[t].pc = "update"
  /\ LET f == frame[t]
     IN /\ last_order_time' =
             IF f.resp # "None" THEN [last_order_time EXCEPT ![f.symbol] = f.now_ts]
             ELSE last_order_time
        /\ frame' = [frame EXCEPT ![t] = [f EXCEPT !.pc = "ret"]]
  /\ UNCHANGED <<main, stream, process, calc, bars_df, now, delivered, submissions>>

(* on_bars returns. *)
Return(t) ==
  /\ StreamThreadAlive
  /\ frame[t].pc = "ret"
  /\ frame' = [frame EXCEPT ![t] = IdleFrame]
  /\ UNCHANGED <<main, stream, process, calc, bars_df, last_order_time, now, delivered, submissions>>

(* stream.run() raises (the connection is lost for good, the server      *)
(* refuses the subscription): stream_thread prints "Stream stopped",       *)
(* closes its loop and returns.  The library awaits the socket between     *)
(* two callbacks.                                                          *)
StreamRunRaises ==
  /\ StreamThreadAlive
  /\ \A t \in Slots : frame[t].pc = "idle"
  /\ ExceptionHandler("stream.run") = "stream_thread"
  /\ stream' = "run_failed"
  /\ UNCHANGED <<main, process, calc, bars_df, last_order_time, now, frame, delivered, submissions>>

(* Ctrl+C: main leaves its sleep loop, prints and returns; the daemon      *)
(* stream thread dies with the process wherever it stands.                 *)
KeyboardInterrupt ==
  /\ process = "running"
  /\ process' = "exited"
  /\ UNCHANGED <<main, stream, calc, bars_df, last_order_time, now, frame, delivered, submissions>>

Next ==
  \/ Tick
  \/ StreamRunRaises
  \/ KeyboardInterrupt
  \/ \E bar \in Bars : OnBarsAppend(bar)
  \/ \E t \in Slots : Evaluate(t)
  \/ \E t \in Slots : \E reply \in RegistryReplies : QueryPosition(t, reply)
  \/ \E t \in Slots : \E ok \in BOOLEAN : PlaceBracketOrder(t, ok)
  \/ \E t \in Slots : GateUpdate(t)
  \/ \E t \in Slots : Return(t)

Spec == Init /\ [][Next]_vars

(* main.py up to latest = df.iloc[-1]. *)
MainFetch(rsi, sma50, sma200) ==
  /\ main.pc = "start"
  /\ main' = [main EXCEPT !.pc = "latest", !.rsi = rsi, !.sma50 = sma50, !.sma200 = sma200]
  /\ UNCHANGED <<bars_df, last_order_time, now, frame, delivered, submissions, stream, process, calc>>

(* main.py from the trading signals to its end. *)
MainTrade ==
  /\ main.pc = "latest"
  /\ LET side == MainSignal(main.rsi, main.sma50, main.sma200)
     IN main' = [main EXCEPT !.pc = "done",
                             !.order = IF side = "hold" THEN "none" ELSE side]
  /\ UNCHANGED <<bars_df, last_order_time, now, frame, delivered, submissions, stream, process, calc>>

(* on_bars for one of the first SignalDeliveries bars. *)
OnBarsAppendEarly(bar) ==
  /\ Len(delivered) < SignalDeliveries
  /\ OnBarsAppend(bar)

(* The scalper over its first SignalDeliveries bars, next to a run of      *)
(* main.py.  The clock stands still: the time read enters no decision of   *)
(* the signal.                                                             *)
NextSignal ==
  \/ \E bar \in Bars : OnBarsAppendEarly(bar)
  \/ \E t \in Slots : Evaluate(t)
  \/ \E t \in Slots : \E reply \in RegistryReplies : QueryPosition(t, reply)
  \/ \E t \in Slots : \E ok \in BOOLEAN : PlaceBracketOrder(t, ok)
  \/ \E t \in Slots : GateUpdate(t)
  \/ \E t \in Slots : Return(t)
  \/ \E rsi \in MainRsi : \E sma50, sma200 \in MainSma : MainFetch(rsi, sma50, sma200)
  \/ MainTrade

SpecSignal == Init /\ [][NextSignal]_vars

(* The prices round_price is called on, in hundredths of 0.0001: every    *)
(* one within MaxRoundInput of zero, and 100.12349, 100.1236, 100.99999.   *)
RoundInputs ==
  (-MaxRoundInput .. MaxRoundInput) \cup {100123490, 100123600, 100999990}

(* The entry prices place_bracket_order is called on, in units of 0.0001. *)
EntryPrices == {1, 49, 50, 99, 100, 300, 450, 1001234}

InitRound ==
  /\ bars_df = <<>>
  /\ last_order_time = [s \in Symbols |-> 0]
  /\ now = StartTime
  /\ frame = [t \in Slots |-> IdleFrame]
  /\ delivered = <<>>
  /\ submissions = <<>>
  /\ main = MainStart
  /\ stream = "running"
  /\ process = "running"
  /\ \E price \in RoundInputs : \E side \in {"buy", "sell"} :
       \E entry_price \in EntryPrices :
         calc = [CalcIdle EXCEPT !.pc = "start", !.price = price,
                                 !.side = side, !.entry_price = entry_price]

(* round_price(price) *)
RoundPriceCall ==
  /\ calc.pc = "start"
  /\ calc' = [calc EXCEPT !.pc = "rounded", !.result = round_price(calc.price, 100)]
  /\ UNCHANGED <<main, stream, process, bars_df, last_order_time, now, frame, delivered, submissions>>

(* The stop and the target of place_bracket_order for a side and an entry. *)
BracketPrices ==
  /\ calc.pc = "rounded"
  /\ \E sl \in StopPrices(calc.side, calc.entry_price) :
       \E tp \in TakeProfitPrices(calc.side, calc.entry_price) :
         calc' = [calc EXCEPT !.pc = "done", !.sl = sl, !.tp = tp]
  /\ UNCHANGED <<main, stream, process, bars_df, last_order_time, now, frame, delivered, submissions>>

NextRound ==
  \/ RoundPriceCall
  \/ BracketPrices

(* The price helpers called on their own, on prices of either sign. *)
SpecRound == InitRound /\ [][NextRound]_vars

----------------------------------------------------------------------------
(* Properties *)

Active == {t \in Slots : frame[t].pc # "idle"}

(* The number of closes both indicators need. *)
BarsNeeded == Max(RSI_PERIOD + 1, MA_PERIOD)

(* The registry reports an open position for BTC/USD, under either of the  *)
(* two spellings the broker uses.                                          *)
ReportsOpenPosition(reply) ==
  /\ ~reply.err
  /\ (<<"BTC", "USD">> \in reply.positions \/ <<"BTC", "/", "USD">> \in reply.positions)

(* C1: after a successful submission for a symbol, no later submission for *)
(* that symbol comes from an evaluation whose time is less than            *)
(* cooldown_seconds after the successful one: signals inside the window    *)
(* add nothing to the one submission.                                      *)
C1_CooldownGate ==
  \A i, j \in DOMAIN submissions :
    (i < j /\ submissions[i].ok /\ submissions[i].symbol = submissions[j].symbol)
      => submissions[j].ts - submissions[i].ts >= cooldown_seconds

(* A Buy or Sell signal evaluated inside the window of a successful order  *)
(* was throttled, and the order is still the only submission.              *)
C1_Witness ==
  \E t \in Slots :
    /\ frame[t].pc = "ret"
    /\ frame[t].outcome = "throttled"
    /\ Signal(frame[t].rsi, frame[t].ma, frame[t].last_price) # "hold"
    /\ Len(submissions) = 1
    /\ submissions[1].ok
    /\ frame[t].now_ts - submissions[1].ts < cooldown_seconds

(* C2: an evaluation whose registry query reported an open position for    *)
(* the symbol never reaches the order gateway.                             *)
C2_PositionGate ==
  \A t \in Slots :
    (frame[t].queries > 0 /\ ReportsOpenPosition(frame[t].reply))
      => /\ frame[t].calls = 0
         /\ frame[t].pc = "ret"
         /\ frame[t].outcome = "position"

(* A signal was skipped because the broker reported BTCUSD. *)
C2_Witness ==
  \E t \in Slots :
    /\ frame[t].pc = "ret"
    /\ frame[t].outcome = "position"
    /\ frame[t].side = "buy"
    /\ frame[t].reply.positions = {<<"BTC", "USD">>}

(* C3: an evaluation whose registry query raised submits no order. *)
C3_FailsClosed ==
  \A t \in Slots :
    (frame[t].queries > 0 /\ frame[t].reply.err)
      => frame[t].calls = 0 /\ frame[t].pc \notin {"submit", "update"}

(* C4: when the gateway fails the submission, last_order_time[symbol]      *)
(* keeps the value it had when the bar was delivered.                      *)
C4_FailureKeepsGate ==
  \A t \in Slots :
    (frame[t].pc = "ret" /\ frame[t].outcome = "failed")
      => last_order_time[frame[t].symbol] = frame[t].lot0

(* A failed submission was followed, less than a cooldown later, by a new  *)
(* submission: the failure did not throttle it.                            *)
C4_Witness ==
  /\ Len(submissions) >= 2
  /\ ~submissions[1].ok
  /\ submissions[2].ts - submissions[1].ts < cooldown_seconds
  /\ \E t \in Slots : frame[t].pc = "ret" /\ frame[t].outcome = "failed"

(* C5: at most one on_bars call is in progress, and from the cooldown test *)
(* to the write of the gate the entry last_order_time[symbol] is the one   *)
(* the call found when it started.                                         *)
C5_OneCriticalSection ==
  /\ Cardinality(Active) <= 1
  /\ \A t \in Slots :
       frame[t].pc \in {"query", "submit", "update"}
         => last_order_time[frame[t].symbol] = frame[t].lot0

(* A call is between its accepted submission and its gate write, and the   *)
(* feed has more bars to deliver.                                          *)
C5_Witness ==
  /\ Len(delivered) < MaxDeliveries
  /\ \E t \in Slots : frame[t].pc = "update" /\ frame[t].resp = "order"

(* C6: the buffer holds exactly the last min(n, MAX_BARS) of the n closes  *)
(* delivered, in arrival order.                                            *)
C6_BoundedFifo ==
  LET n == Len(delivered)
      k == IF n <= MAX_BARS THEN n ELSE MAX_BARS
  IN /\ Len(bars_df) = k
     /\ \A i \in 1..k : bars_df[i] = delivered[n - k + i]

(* MAX_BARS + 1 closes were delivered and only the oldest is gone. *)
C6_Witness ==
  /\ Len(delivered) = MAX_BARS + 1
  /\ Len(bars_df) = MAX_BARS
  /\ delivered[1] # delivered[2]
  /\ bars_df[1] = delivered[2]
  /\ bars_df[MAX_BARS] = delivered[MAX_BARS + 1]

(* The decision as the specification words it, for one moving average     *)
(* (close against sma) and for two (sma_short against sma_long).           *)
BuyCondition(rsi, fast, slow) ==
  rsi.def /\ fast.def /\ slow.def
    /\ rsi.num < BUY_THRESHOLD * rsi.den /\ fast.num * slow.den > slow.num * fast.den
SellCondition(rsi, fast, slow) ==
  rsi.def /\ fast.def /\ slow.def
    /\ rsi.num > SELL_THRESHOLD * rsi.den /\ fast.num * slow.den < slow.num * fast.den
Decision(rsi, fast, slow) ==
  IF BuyCondition(rsi, fast, slow) THEN "buy"
  ELSE IF SellCondition(rsi, fast, slow) THEN "sell"
  ELSE "hold"

(* C7: every evaluation that got past the cooldown test chose Buy exactly  *)
(* when rsi < 30 and close > sma, Sell exactly when rsi > 70 and           *)
(* close < sma, Hold otherwise, never both; the order it submitted has the *)
(* side chosen; main.py orders by the same rule with SMA50 against SMA200. *)
C7_ThreeWaySignal ==
  /\ \A t \in Slots :
       LET f == frame[t]
           close == Frac(f.last_price, 1)
       IN /\ f.outcome \in {"hold", "signal", "position", "submitted", "failed"}
               => /\ f.side = Decision(f.rsi, close, f.ma)
                  /\ ~(BuyCondition(f.rsi, close, f.ma) /\ SellCondition(f.rsi, close, f.ma))
          /\ f.calls > 0
               => /\ f.side \in {"buy", "sell"}
                  /\ submissions[Len(submissions)].side = f.side
          /\ f.outcome = "hold" => f.calls = 0 /\ f.queries = 0
  /\ \A i \in DOMAIN submissions : submissions[i].side \in {"buy", "sell"}
  /\ main.pc = "done"
       => LET d == Decision(main.rsi, main.sma50, main.sma200)
          IN main.order = (IF d = "hold" THEN "none" ELSE d)

(* The scalper submitted a Sell order and main.py ordered a Buy. *)
C7_Witness ==
  /\ main.pc = "done"
  /\ main.order = "buy"
  /\ \E t \in Slots :
       /\ frame[t].calls = 1
       /\ frame[t].side = "sell"
       /\ SellCondition(frame[t].rsi, Frac(frame[t].last_price, 1), frame[t].ma)

(* C8: an evaluation over fewer than RSI_PERIOD + 1 or fewer than          *)
(* MA_PERIOD closes finds an indicator undefined and returns without a     *)
(* registry query, a submission or a gate write; no order is submitted     *)
(* before BarsNeeded bars were received.                                   *)
C8_InsufficientDataIsHold ==
  /\ \A t \in Slots :
       (frame[t].pc \notin {"idle", "eval"}
          /\ (Len(bars_df) < RSI_PERIOD + 1 \/ Len(bars_df) < MA_PERIOD))
         => /\ frame[t].pc = "ret"
            /\ frame[t].outcome = "nodata"
            /\ (~frame[t].rsi.def \/ ~frame[t].ma.def)
            /\ frame[t].queries = 0
            /\ frame[t].calls = 0
            /\ last_order_time[frame[t].symbol] = frame[t].lot0
  /\ Len(delivered) < BarsNeeded => submissions = <<>>

(* An evaluation with MA defined and RSI undefined has returned. *)
C8_Witness ==
  \E t \in Slots :
    /\ frame[t].pc = "ret"
    /\ frame[t].outcome = "nodata"
    /\ frame[t].ma.def
    /\ ~frame[t].rsi.def
    /\ Len(delivered) = RSI_PERIOD

(* C9: a bar with a non-positive price or with a symbol other than SYMBOL  *)
(* is not appended and starts no evaluation.                               *)
C9_MalformedDropped ==
  /\ \A i \in DOMAIN bars_df : bars_df[i] > 0
  /\ \A t \in Active : frame[t].bar_symbol = SYMBOL /\ frame[t].close > 0

(* C10: an entry of last_order_time changes only in the gate write of a    *)
(* call for that symbol whose one submission the gateway accepted, and     *)
(* becomes the time that call read.                                        *)
C10_GateWrittenOnlyOnSuccess ==
  [][\A s \in Symbols :
       last_order_time'[s] # last_order_time[s]
         => \E t \in Slots :
              /\ frame[t].pc = "update"
              /\ frame[t].symbol = s
              /\ frame[t].outcome = "submitted"
              /\ frame[t].calls = 1
              /\ submissions[Len(submissions)].ok
              /\ last_order_time'[s] = frame[t].now_ts]_vars

(* The gate of BTC/USD was written after an accepted order and the entry   *)
(* of the other symbol is untouched.                                       *)
C10_Witness ==
  /\ last_order_time[SYMBOL] >= StartTime
  /\ last_order_time[OtherSymbol] = 0
  /\ \E t \in Slots : frame[t].pc = "ret" /\ frame[t].outcome = "submitted"

(* A submission that the gateway refused is on record. *)
SubmissionFailed == \E i \in DOMAIN submissions : ~submissions[i].ok

(* C11: a failure of the order gateway does not end the pipeline.  The     *)
(* evaluation whose submission failed goes on to the gate update and to    *)
(* the return of on_bars with None for the order, the stream thread is     *)
(* never ended by a callback, and after a failed submission the next bar   *)
(* is still taken (appended) and the bar that was taken is still           *)
(* evaluated, as long as nothing else stopped the thread.                  *)
C11_GatewayFailureSurvived ==
  /\ stream # "callback_failed"
  /\ \A t \in Slots :
       frame[t].outcome = "failed" =>
         /\ frame[t].pc \in {"update", "ret"}
         /\ frame[t].resp = "None"
         /\ StreamThreadAlive => ENABLED (GateUpdate(t) \/ Return(t))
  /\ (SubmissionFailed /\ StreamThreadAlive) =>
       /\ (Active = {} /\ Len(delivered) < MaxDeliveries) =>
            ENABLED (\E bar \in Bars : OnBarsAppend(bar))
       /\ \A t \in Slots : frame[t].pc = "eval" =>
            /\ bars_df # <<>>
            /\ LastClose(bars_df) = frame[t].close
            /\ ENABLED Evaluate(t)

(* A submission failed, and a later bar has been appended and evaluated. *)
C11_Witness ==
  /\ SubmissionFailed
  /\ StreamThreadAlive
  /\ \E t \in Slots :
       /\ frame[t].pc = "ret"
       /\ frame[t].calls = 0
       /\ frame[t].outcome \in {"hold", "throttled", "position"}
       /\ LastClose(bars_df) = frame[t].close

(* C12: a stop signal lets the evaluation in flight finish.  Once the      *)
(* process has exited on Ctrl+C, no call of on_bars is left part-way: none *)
(* stands between its append and its evaluation, between its gate check    *)
(* and its submission, or between its submission and its gate update.      *)
C12_StopLetsEvaluationFinish ==
  process = "exited" => \A t \in Slots : frame[t].pc = "idle"

(* A step of the stream thread: a delivery, a step of a callback, or the   *)
(* end of stream.run().                                                    *)
StreamThreadStep ==
  \/ \E bar \in Bars : OnBarsAppend(bar)
  \/ \E t \in Slots : Evaluate(t)
  \/ \E t \in Slots : \E reply \in RegistryReplies : QueryPosition(t, reply)
  \/ \E t \in Slots : \E ok \in BOOLEAN : PlaceBracketOrder(t, ok)
  \/ \E t \in Slots : GateUpdate(t)
  \/ \E t \in Slots : Return(t)
  \/ StreamRunRaises

(* C13: a failed stream run is recovered.  While the process runs, a       *)
(* stream whose run has ended can take a step again (a retry, a delivery), *)
(* and the history holds the delivered closes only, none made up for the   *)
(* gap.                                                                    *)
C13_FeedRecovered ==
  /\ (stream # "running" /\ process = "running") => ENABLED StreamThreadStep
  /\ bars_df = TailN(delivered, MAX_BARS)

(* The evaluation of slot t has a Buy signal on defined indicators, its    *)
(* cooldown window over, and a registry that answered without a position   *)
(* for the symbol.                                                         *)
BuyPastBothGates(t) ==
  LET f == frame[t]
  IN /\ f.pc \in {"submit", "update", "ret"}
     /\ BuyCondition(f.rsi, Frac(f.last_price, 1), f.ma)
     /\ ~(f.now_ts - f.lot0 < cooldown_seconds)
     /\ f.queries = 1 /\ ~f.reply.err /\ ~ReportsOpenPosition(f.reply)

(* C14: an evaluation with a Buy signal, the cooldown over and no open     *)
(* position reaches the gateway: before the call it has made none and the  *)
(* call is its next step; after the call it has made exactly one, the last *)
(* order on record, with side buy at the close of the bar; and when the    *)
(* gateway accepted it, on_bars returns with last_order_time[symbol] set   *)
(* to the time of the evaluation, so that every time within                *)
(* cooldown_seconds of it is throttled.                                    *)
C14_BuyDispatchedOnce ==
  \A t \in Slots :
    BuyPastBothGates(t) =>
      LET f == frame[t]
      IN /\ f.side = "buy"
         /\ f.pc = "submit" =>
              /\ f.calls = 0
              /\ StreamThreadAlive => ENABLED PlaceBracketOrder(t, TRUE)
         /\ f.pc \in {"update", "ret"} =>
              /\ f.calls = 1
              /\ submissions # <<>>
              /\ LET o == submissions[Len(submissions)]
                 IN /\ o.side = "buy" /\ o.symbol = f.symbol
                    /\ o.entry = f.close /\ o.ts = f.now_ts
                    /\ o.ok <=> (f.outcome = "submitted")
              /\ Cardinality({i \in DOMAIN submissions :
                                submissions[i].ts = f.now_ts
                                  /\ submissions[i].ok}) <= 1
         /\ (f.pc = "update" /\ f.outcome = "submitted" /\ StreamThreadAlive) =>
              ENABLED GateUpdate(t)
         /\ (f.pc = "ret" /\ f.outcome = "submitted") =>
              /\ last_order_time[f.symbol] = f.now_ts
              /\ \A later \in f.now_ts .. (f.now_ts + cooldown_seconds - 1) :
                   Throttled(later, last_order_time[f.symbol])

(* A Buy evaluation has been through both gates and the gateway, which     *)
(* accepted the order, and on_bars is about to return.                     *)
C14_Witness ==
  \E t \in Slots :
    /\ BuyPastBothGates(t)
    /\ frame[t].pc = "ret"
    /\ frame[t].outcome = "submitted"
    /\ frame[t].calls = 1

(* C15: the legs of every bracket order submitted at a positive close are  *)
(* on the correct side of it after the round-down: stop < close < target   *)
(* for a Buy, target < close < stop for a Sell.                            *)
C15_LegsOnCorrectSide ==
  \A i \in DOMAIN submissions :
    LET o == submissions[i]
    IN o.entry > 0 =>
         IF o.side = "buy" THEN o.sl < o.entry /\ o.entry < o.tp
         ELSE o.tp < o.entry /\ o.entry < o.sl

SameSign(a, b) == (a >= 0 /\ b >= 0) \/ (a <= 0 /\ b <= 0)

(* A leg is the exact product n/100 cut to the grid: never beyond it, and  *)
(* less than one grid step short of it, a full step when the float product *)
(* fell just short of a grid multiple.                                     *)
LegTruncated(leg, n) ==
  /\ Abs(leg) * 100 <= Abs(n)
  /\ Abs(n) <= (Abs(leg) + 1) * 100
  /\ SameSign(leg, n)

InsideWindow(t) ==
  /\ frame[t].pc \notin {"idle", "eval"}
  /\ frame[t].outcome \notin {"empty", "nodata"}
  /\ frame[t].now_ts - frame[t].lot0 < cooldown_seconds

(* C17: the cooldown gate comes before the position gate.  An evaluation   *)
(* inside the window is throttled and returns with no query of the         *)
(* registry and no call of the gateway; an evaluation asks the registry at *)
(* most once, and only with a Buy or Sell signal outside the window; the   *)
(* gateway is called only after that one query.                            *)
C17_CooldownBeforePosition ==
  \A t \in Slots :
    LET f == frame[t]
    IN /\ InsideWindow(t) =>
            f.outcome = "throttled" /\ f.pc = "ret" /\ f.queries = 0 /\ f.calls = 0
       /\ f.outcome = "throttled" => InsideWindow(t) /\ f.queries = 0 /\ f.calls = 0
       /\ f.queries <= 1
       /\ f.pc = "query" => f.queries = 0
       /\ f.queries = 1 =>
            /\ f.side \in {"buy", "sell"}
            /\ f.side = Decision(f.rsi, Frac(f.last_price, 1), f.ma)
            /\ ~InsideWindow(t)
       /\ f.calls >= 1 => f.queries = 1

(* An evaluation with a Buy or Sell signal was throttled and is about to   *)
(* return, the registry not asked.                                         *)
C17_Witness ==
  \E t \in Slots :
    /\ frame[t].pc = "ret"
    /\ frame[t].outcome = "throttled"
    /\ Decision(frame[t].rsi, Frac(frame[t].last_price, 1), frame[t].ma) \in {"buy", "sell"}
    /\ frame[t].queries = 0

(* C18: a delivery is one append and then one evaluation.  When the        *)
(* indicators are about to be computed the close of the delivered bar is   *)
(* the last entry of the history; the price the evaluation uses for the    *)
(* signal and for stop and target is that close; an evaluation calls the   *)
(* gateway at most once, so there are never more orders than deliveries;   *)
(* and the evaluation of a bar is the step that follows its append, no     *)
(* other bar being taken before it.                                        *)
C18_AppendThenEvaluate ==
  /\ Len(submissions) <= Len(delivered)
  /\ Cardinality(Active) <= 1
  /\ \A t \in Slots :
       LET f == frame[t]
       IN /\ f.pc = "eval" =>
               /\ bars_df # <<>>
               /\ bars_df[Len(bars_df)] = f.close
               /\ delivered[Len(delivered)] = f.close
               /\ StreamThreadAlive =>
                    (ENABLED Evaluate(t) /\ ~ENABLED (\E bar \in Bars : OnBarsAppend(bar)))
          /\ f.pc \notin {"idle", "eval"} =>
               /\ f.outcome # "empty"
               /\ f.last_price = f.close
               /\ delivered[Len(delivered)] = f.close
          /\ f.calls <= 1
          /\ f.calls = 1 =>
               LET o == submissions[Len(submissions)]
               IN /\ o.entry = f.close
                  /\ o.sl \in StopPrices(o.side, f.close)
                  /\ o.tp \in TakeProfitPrices(o.side, f.close)

(* The third bar, with a close unlike the one before it, was appended and  *)
(* evaluated, and its order went to the gateway.                           *)
C18_Witness ==
  \E t \in Slots :
    /\ frame[t].pc = "update"
    /\ frame[t].calls = 1
    /\ Len(bars_df) >= 2
    /\ bars_df[Len(bars_df) - 1] # frame[t].close
    /\ submissions[Len(submissions)].entry = frame[t].close

====
